---- MODULE Spec2Model ----
(***************************************************************************)
(* pulse-mcp: the system monitor (services/systemStatus.ts) and the remote *)
(* management service (services/remote.ts) as one state machine.           *)
(*                                                                         *)
(* Node runs one callback at a time: an action of this module is the code  *)
(* that runs between two suspension points (an await of the metrics probe, *)
(* of the temperature probe, of a shell command or of the wake packet).    *)
(***************************************************************************)
EXTENDS Integers, Sequences, FiniteSets, TLC

VARIABLES
    \* ---- environment
    now,                 \* the reading of Date.now()
    host,                \* what the metrics probe would read from the host now
    \* ---- SystemMonitor
    enableAlerts,        \* config.monitoring.enableAlerts
    alerts,              \* SystemMonitor.alerts
    isMonitoring,        \* SystemMonitor.isMonitoring
    monitoringInterval,  \* SystemMonitor.monitoringInterval (0: undefined)
    timers,              \* the interval handles the event loop still holds
    ticks,               \* interval callbacks suspended at an await
    tickBudget,          \* timer firings left in this run
    lastEval,            \* the latest checkAlerts call: its argument and its return value
    appended,            \* every alert pushed since the last clearAlerts, in push order
    snapshots,           \* getDetailedMetrics() calls made by the tool handlers
    \* ---- RemoteManagementService
    enableWakeOnLan,     \* config.remote.enableWakeOnLan
    allowSystemControl,  \* config.remote.allowSystemControl
    platform,            \* process.platform
    targets,             \* RemoteManagementService.targets: name -> RemoteTarget
    ops,                 \* the RemoteOperation objects ever created; an index is a reference
    operations,          \* RemoteManagementService.operations: references, in push order
    frames,              \* frames[r]: the call that created ops[r]
    callBudget,          \* executor calls left in this run
    lastQuery,           \* the latest getOperations / getOperationsByTarget call
    toolCalls,           \* the shutdown_system handler calls: arguments and outcome
    \* ---- AuthService
    users,               \* AuthService.users: user id -> User
    authFrames           \* createDefaultAdmin / createUser calls: suspended or over

monitorVars == <<enableAlerts, alerts, isMonitoring, monitoringInterval, timers,
                 ticks, tickBudget, lastEval, appended, snapshots>>

remoteVars == <<enableWakeOnLan, allowSystemControl, platform, targets, ops,
                operations, frames, callBudget, lastQuery, toolCalls>>

handlerVars == <<lastQuery, toolCalls>>

configVars == <<enableWakeOnLan, allowSystemControl, platform>>

envVars == <<now, host>>

authVars == <<users, authFrames>>

vars == <<now, host, enableAlerts, alerts, isMonitoring, monitoringInterval, timers,
          ticks, tickBudget, lastEval, appended, snapshots, enableWakeOnLan,
          allowSystemControl, platform, targets, ops, operations, frames, callBudget,
          lastQuery, toolCalls, users, authFrames>>

----------------------------------------------------------------------------
(* Bounds of the model. *)

MaxClock == 1
MaxInFlight == 2
MaxTicks == 2
MaxEvalTicks == 1
RetentionTicks == 14
MaxCalls == 2
MaxSystemCalls == 1
MaxSystemTicks == 1
MaxSnapshots == 2
MaxLiveCalls == 2
MaxToolCalls == 2
MaxAuthCalls == 2

----------------------------------------------------------------------------
(* Helpers. *)

Min(a, b) == IF a < b THEN a ELSE b

Max(a, b) == IF a > b THEN a ELSE b

RemoveAt(s, i) == SubSeq(s, 1, i - 1) \o SubSeq(s, i + 1, Len(s))

\* Array.prototype.slice(start): a negative start counts from the end and is
\* clamped at the first element, a start past the end gives the empty array.
Slice(s, start) ==
    LET len == Len(s)
        k == IF start < 0 THEN Max(len + start, 0) ELSE Min(start, len)
    IN SubSeq(s, k + 1, len)

----------------------------------------------------------------------------
(* SystemMonitor.checkAlerts: the thresholds and the four checks. *)

CpuThreshold == 90
CpuCritical == 95
MemoryThreshold == 85
MemoryCritical == 95
DiskThreshold == 80
DiskCritical == 90
TempThreshold == 70
TempCritical == 80
AlertWindow == 50

\* `cpu-${Date.now()}`: the prefix and the clock reading.
AlertId(prefix, t) == <<prefix, t>>

Alert(prefix, label, value, threshold, critical, t) ==
    [id |-> AlertId(prefix, t),
     type |-> IF value > critical THEN "critical" ELSE "warning",
     message |-> <<label, value>>,
     value |-> value,
     threshold |-> threshold,
     timestamp |-> t]

\* A slip in the cpu check: the disk threshold pasted in.
CpuAlertAtDiskThreshold(m, t) ==
    IF m.cpuUsage > DiskThreshold
    THEN <<Alert("cpu", "High CPU usage", m.cpuUsage, CpuThreshold, CpuCritical, t)>>
    ELSE <<>>

CpuAlert(m, t) ==
    IF m.cpuUsage > CpuThreshold
    THEN <<Alert("cpu", "High CPU usage", m.cpuUsage, CpuThreshold, CpuCritical, t)>>
    ELSE <<>>

MemoryAlert(m, t) ==
    IF m.memoryPercentage > MemoryThreshold
    THEN <<Alert("memory", "High memory usage", m.memoryPercentage,
                 MemoryThreshold, MemoryCritical, t)>>
    ELSE <<>>

DiskAlert(m, t) ==
    IF m.diskPercentage > DiskThreshold
    THEN <<Alert("disk", "High disk usage", m.diskPercentage,
                 DiskThreshold, DiskCritical, t)>>
    ELSE <<>>

TempAlert(m, t) ==
    IF m.cpuTemperature > TempThreshold
    THEN <<Alert("temp", "High CPU temperature", m.cpuTemperature,
                 TempThreshold, TempCritical, t)>>
    ELSE <<>>

\* The four checks in another order: the temperature first.
NewAlertsTempFirst(m, t) ==
    TempAlert(m, t) \o CpuAlert(m, t) \o MemoryAlert(m, t) \o DiskAlert(m, t)

\* The array checkAlerts builds and returns.
NewAlerts(m, t) == CpuAlert(m, t) \o MemoryAlert(m, t) \o DiskAlert(m, t) \o TempAlert(m, t)

\* A push that runs twice.
PushAlertsTwice(log, new) == log \o new \o new

\* this.alerts.push(...newAlerts)
PushAlerts(log, new) == log \o new

\* A slip in getAlerts: slice(0, 50), the oldest fifty.
GetAlertsOldest == SubSeq(alerts, 1, Min(AlertWindow, Len(alerts)))

\* getAlerts(): this.alerts.slice(-50)
GetAlerts == Slice(alerts, 0 - AlertWindow)

\* checkAlerts(metrics) as a step: the push and the returned array.
CheckAlerts(m) ==
    /\ alerts' = PushAlerts(alerts, NewAlerts(m, now))
    /\ appended' = appended \o NewAlerts(m, now)
    /\ lastEval' = [called |-> TRUE, metrics |-> m, result |-> NewAlerts(m, now)]

----------------------------------------------------------------------------
(* SystemMonitor.getDetailedMetrics and getFallbackMetrics. *)

NoMetrics == [cpuUsage |-> 0, memoryPercentage |-> 0, diskPercentage |-> 0, cpuTemperature |-> 0]

\* What Promise.all([...si calls]) resolves to, as far as the alerts read it; the
\* temperature is read by a second await.
ProbedMetrics(h) ==
    [cpuUsage |-> h.cpuUsage, memoryPercentage |-> h.memoryPercentage,
     diskPercentage |-> h.diskPercentage, cpuTemperature |-> 0]

\* getFallbackMetrics(): zero cpu and disk, the memory percentage is that of the
\* process heap (heapUsed / heapTotal).
FallbackMetrics(h) ==
    [cpuUsage |-> 0, memoryPercentage |-> h.heapPercentage,
     diskPercentage |-> 0, cpuTemperature |-> 0]

----------------------------------------------------------------------------
(* Input sets. *)

Around(w, c) == {0, w - 1, w, w + 1, c - 1, c, c + 1}

GridHosts ==
    [cpuUsage : Around(CpuThreshold, CpuCritical),
     memoryPercentage : Around(MemoryThreshold, MemoryCritical),
     diskPercentage : Around(DiskThreshold, DiskCritical),
     cpuTemperature : Around(TempThreshold, TempCritical),
     heapPercentage : {60}]

Calm == [cpuUsage |-> 12, memoryPercentage |-> 40, diskPercentage |-> 55,
         cpuTemperature |-> 45, heapPercentage |-> 60]

Busy == [cpuUsage |-> 97, memoryPercentage |-> 88, diskPercentage |-> 55,
         cpuTemperature |-> 45, heapPercentage |-> 92]

Overloaded == [cpuUsage |-> 99, memoryPercentage |-> 97, diskPercentage |-> 93,
               cpuTemperature |-> 85, heapPercentage |-> 92]

ProfileHosts == {Calm, Busy, Overloaded}

----------------------------------------------------------------------------
(* The state after construction. *)

\* A constructor that starts the monitor whatever the flag says.
InitMonitorAlwaysStarts(enabled, budget) ==
    /\ enableAlerts = enabled
    /\ alerts = <<>>
    /\ isMonitoring = TRUE
    /\ monitoringInterval = 1
    /\ timers = {1}
    /\ ticks = <<>>
    /\ tickBudget = budget
    /\ lastEval = [called |-> FALSE, metrics |-> NoMetrics, result |-> <<>>]
    /\ appended = <<>>
    /\ snapshots = <<>>

\* startMonitoring() on a monitor that is not monitoring: one new interval.
InitMonitor(enabled, budget) ==
    /\ enableAlerts = enabled
    /\ alerts = <<>>
    /\ isMonitoring = enabled
    /\ monitoringInterval = (IF enabled THEN 1 ELSE 0)
    /\ timers = (IF enabled THEN {1} ELSE {})
    /\ ticks = <<>>
    /\ tickBudget = budget
    /\ lastEval = [called |-> FALSE, metrics |-> NoMetrics, result |-> <<>>]
    /\ appended = <<>>
    /\ snapshots = <<>>

----------------------------------------------------------------------------
(* The interval callback: getDetailedMetrics, then checkAlerts. *)

\* A timer that fires once: setTimeout in the place of setInterval.
TimerFireOnce ==
    /\ tickBudget > 0
    /\ Len(ticks) < MaxInFlight
    /\ \E h \in timers :
         /\ ticks' = Append(ticks, [pc |-> "probe", timer |-> h, metrics |-> NoMetrics])
         /\ timers' = timers \ {h}
    /\ tickBudget' = tickBudget - 1
    /\ now' = now + 1
    /\ UNCHANGED <<snapshots, enableAlerts, alerts, isMonitoring, monitoringInterval,
                   lastEval, appended, host, remoteVars, authVars>>

\* The interval fires, at least a millisecond after it was set or last fired: the
\* callback runs up to the await of Promise.all.
TimerFire ==
    /\ tickBudget > 0
    /\ Len(ticks) < MaxInFlight
    /\ \E h \in timers :
         ticks' = Append(ticks, [pc |-> "probe", timer |-> h, metrics |-> NoMetrics])
    /\ tickBudget' = tickBudget - 1
    /\ now' = now + 1
    /\ UNCHANGED <<snapshots, enableAlerts, alerts, isMonitoring, monitoringInterval, timers,
                   lastEval, appended, host, remoteVars, authVars>>

\* The interval fires when no earlier callback is still suspended: the probe is
\* faster than the interval.
TimerFireIdle ==
    /\ Len(ticks) = 0
    /\ TimerFire

\* Promise.all resolves: the callback goes on to the await of cpuTemperature.
ProbeResolve ==
    /\ \E i \in 1..Len(ticks) :
         /\ ticks[i].pc = "probe"
         /\ ticks' = [ticks EXCEPT ![i] = [@ EXCEPT !.pc = "temp",
                                                    !.metrics = ProbedMetrics(host)]]
    /\ UNCHANGED <<snapshots, enableAlerts, alerts, isMonitoring, monitoringInterval, timers,
                   tickBudget, lastEval, appended, envVars, remoteVars, authVars>>

\* Promise.all rejects: getDetailedMetrics returns the fallback metrics, and the
\* callback runs checkAlerts on them.
ProbeReject ==
    /\ \E i \in 1..Len(ticks) :
         /\ ticks[i].pc = "probe"
         /\ ticks' = RemoveAt(ticks, i)
         /\ CheckAlerts(FallbackMetrics(host))
    /\ UNCHANGED <<snapshots, enableAlerts, isMonitoring, monitoringInterval, timers,
                   tickBudget, envVars, remoteVars, authVars>>

\* cpuTemperature resolves: the metrics are complete, checkAlerts runs.
TempResolve ==
    /\ \E i \in 1..Len(ticks) :
         /\ ticks[i].pc = "temp"
         /\ ticks' = RemoveAt(ticks, i)
         /\ CheckAlerts([ticks[i].metrics EXCEPT !.cpuTemperature = host.cpuTemperature])
    /\ UNCHANGED <<snapshots, enableAlerts, isMonitoring, monitoringInterval, timers,
                   tickBudget, envVars, remoteVars, authVars>>

\* cpuTemperature rejects: .catch(() => ({ main: 0 })), the temperature is 0.
TempReject ==
    /\ \E i \in 1..Len(ticks) :
         /\ ticks[i].pc = "temp"
         /\ ticks' = RemoveAt(ticks, i)
         /\ CheckAlerts([ticks[i].metrics EXCEPT !.cpuTemperature = 0])
    /\ UNCHANGED <<snapshots, enableAlerts, isMonitoring, monitoringInterval, timers,
                   tickBudget, envVars, remoteVars, authVars>>

\* A clearAlerts that trims the store to its window in the place of emptying it.
ClearAlertsTrims ==
    /\ alerts' = Slice(alerts, 0 - AlertWindow)
    /\ appended' = <<>>
    /\ UNCHANGED <<snapshots, enableAlerts, isMonitoring, monitoringInterval, timers, ticks,
                   tickBudget, lastEval, envVars, remoteVars, authVars>>

\* clearAlerts()
ClearAlerts ==
    /\ alerts' = <<>>
    /\ appended' = <<>>
    /\ UNCHANGED <<snapshots, enableAlerts, isMonitoring, monitoringInterval, timers, ticks,
                   tickBudget, lastEval, envVars, remoteVars, authVars>>

\* A handle the event loop does not hold.
FreshHandle(held) == CHOOSE h \in 1..(Cardinality(held) + 1) : h \notin held

\* A startMonitoring without its guard.
StartMonitoringUnguarded ==
    /\ isMonitoring' = TRUE
    /\ monitoringInterval' = FreshHandle(timers)
    /\ timers' = timers \cup {FreshHandle(timers)}
    /\ UNCHANGED <<snapshots, enableAlerts, alerts, ticks, tickBudget, lastEval, appended,
                   envVars, remoteVars, authVars>>

\* startMonitoring(), called again after construction: it returns at once when
\* the monitor is monitoring, and sets a new interval otherwise.
StartMonitoring ==
    /\ IF isMonitoring
       THEN UNCHANGED <<isMonitoring, monitoringInterval, timers>>
       ELSE /\ isMonitoring' = TRUE
            /\ monitoringInterval' = FreshHandle(timers)
            /\ timers' = timers \cup {FreshHandle(timers)}
    /\ UNCHANGED <<snapshots, enableAlerts, alerts, ticks, tickBudget, lastEval, appended,
                   envVars, remoteVars, authVars>>

\* A stopMonitoring that only lowers the flag.
StopMonitoringFlagOnly ==
    /\ isMonitoring' = FALSE
    /\ UNCHANGED <<snapshots, enableAlerts, alerts, monitoringInterval, timers, ticks,
                   tickBudget, lastEval, appended, envVars, remoteVars, authVars>>

\* stopMonitoring()
StopMonitoring ==
    /\ timers' = (IF monitoringInterval # 0 THEN timers \ {monitoringInterval} ELSE timers)
    /\ monitoringInterval' = 0
    /\ isMonitoring' = FALSE
    /\ UNCHANGED <<snapshots, enableAlerts, alerts, ticks, tickBudget, lastEval, appended,
                   envVars, remoteVars, authVars>>

----------------------------------------------------------------------------
(* getDetailedMetrics() called by a tool handler (system_status). *)

\* A getDetailedMetrics without its catch block: the fault leaves the method.
ProbeCatchRethrow(h) == [pc |-> "thrown", metrics |-> NoMetrics]

\* The catch block of getDetailedMetrics: `return this.getFallbackMetrics()`.
ProbeCatch(h) == [pc |-> "returned", metrics |-> FallbackMetrics(h)]

\* The call runs up to the await of Promise.all.
GetDetailedMetrics ==
    /\ Len(snapshots) < MaxSnapshots
    /\ snapshots' = Append(snapshots, [pc |-> "probe", metrics |-> NoMetrics,
                                       probeFailed |-> FALSE])
    /\ UNCHANGED <<enableAlerts, alerts, isMonitoring, monitoringInterval, timers, ticks,
                   tickBudget, lastEval, appended, envVars, remoteVars, authVars>>

\* The handler is called when no earlier call of it is still suspended.
GetDetailedMetricsIdle ==
    /\ \A i \in 1..Len(snapshots) : snapshots[i].pc = "returned"
    /\ GetDetailedMetrics

\* Promise.all resolves: the call goes on to the await of cpuTemperature.
SnapshotProbeResolve ==
    /\ \E i \in 1..Len(snapshots) :
         /\ snapshots[i].pc = "probe"
         /\ snapshots' = [snapshots EXCEPT ![i] = [@ EXCEPT !.pc = "temp",
                                                            !.metrics = ProbedMetrics(host)]]
    /\ UNCHANGED <<enableAlerts, alerts, isMonitoring, monitoringInterval, timers, ticks,
                   tickBudget, lastEval, appended, envVars, remoteVars, authVars>>

\* Promise.all rejects: the catch block ends the call.
SnapshotProbeReject ==
    /\ \E i \in 1..Len(snapshots) :
         /\ snapshots[i].pc = "probe"
         /\ LET caught == ProbeCatch(host)
            IN snapshots' = [snapshots EXCEPT ![i] = [pc |-> caught.pc,
                                                      metrics |-> caught.metrics,
                                                      probeFailed |-> TRUE]]
    /\ UNCHANGED <<enableAlerts, alerts, isMonitoring, monitoringInterval, timers, ticks,
                   tickBudget, lastEval, appended, envVars, remoteVars, authVars>>

\* A getDetailedMetrics that runs checkAlerts on what it returns.
SnapshotTempResolveEvaluates ==
    /\ \E i \in 1..Len(snapshots) :
         /\ snapshots[i].pc = "temp"
         /\ snapshots' = [snapshots EXCEPT
                            ![i] = [@ EXCEPT !.pc = "returned",
                                             !.metrics.cpuTemperature = host.cpuTemperature]]
         /\ CheckAlerts([snapshots[i].metrics EXCEPT !.cpuTemperature = host.cpuTemperature])
    /\ UNCHANGED <<enableAlerts, isMonitoring, monitoringInterval, timers, ticks,
                   tickBudget, envVars, remoteVars, authVars>>

\* cpuTemperature resolves: the metrics are complete and returned.
SnapshotTempResolve ==
    /\ \E i \in 1..Len(snapshots) :
         /\ snapshots[i].pc = "temp"
         /\ snapshots' = [snapshots EXCEPT
                            ![i] = [@ EXCEPT !.pc = "returned",
                                             !.metrics.cpuTemperature = host.cpuTemperature]]
    /\ UNCHANGED <<enableAlerts, alerts, isMonitoring, monitoringInterval, timers, ticks,
                   tickBudget, lastEval, appended, envVars, remoteVars, authVars>>

\* cpuTemperature rejects: .catch(() => ({ main: 0 })), the temperature is 0.
SnapshotTempReject ==
    /\ \E i \in 1..Len(snapshots) :
         /\ snapshots[i].pc = "temp"
         /\ snapshots' = [snapshots EXCEPT ![i] = [@ EXCEPT !.pc = "returned",
                                                            !.metrics.cpuTemperature = 0]]
    /\ UNCHANGED <<enableAlerts, alerts, isMonitoring, monitoringInterval, timers, ticks,
                   tickBudget, lastEval, appended, envVars, remoteVars, authVars>>

----------------------------------------------------------------------------
(* The environment. *)

ClockAdvance ==
    /\ now < MaxClock
    /\ now' = now + 1
    /\ UNCHANGED <<host, monitorVars, remoteVars, authVars>>

HostChange ==
    /\ \E h \in ProfileHosts : h # host /\ host' = h
    /\ UNCHANGED <<now, monitorVars, remoteVars, authVars>>

----------------------------------------------------------------------------
(* RemoteManagementService: the data. *)

\* The names a caller passes; only KnownNames are ever put in the target table.
KnownNames == {"pc"}

ArgNames == {"pc", "nas"}

DelayArgs == {0, 1, 1440, 1441}

Platforms == {"win32", "darwin", "linux", "freebsd"}

MinDelay == 1
MaxDelay == 1440

Target(name) == [name |-> name, ip |-> <<"ip", name>>, mac |-> <<"mac", name>>,
                 platform |-> "linux"]

NoTargets == [n \in {} |-> Target(n)]

\* `wake-${Date.now()}`: the prefix and the clock reading.
OperationId(prefix, t) == <<prefix, t>>

\* The object literal every method starts with: pending, no error, no duration.
\* An optional field is <<>> when absent and <<v>> when it holds v.
NewOperation(prefix, target, kind, t) ==
    [id |-> OperationId(prefix, t),
     target |-> target,
     operation |-> kind,
     status |-> "pending",
     timestamp |-> t,
     error |-> <<>>,
     duration |-> <<>>]

\* new Error(message), and what a rejected promise carries.
Error(message) == [isError |-> TRUE, message |-> message]

\* error instanceof Error ? error.message : fallback
ErrorText(e, fallback) == IF e.isError THEN e.message ELSE fallback

Checked(command) == [ok |-> TRUE, command |-> command, thrown |-> Error(<<"none">>)]

Thrown(message) == [ok |-> FALSE, command |-> <<>>, thrown |-> Error(message)]

----------------------------------------------------------------------------
(* The try block of each method up to its await: the checks and the command. *)

\* A wakeOnLan that does not look at the flag.
WakeCheckIgnoresFlag(targetName) ==
    IF targetName \notin DOMAIN targets
    THEN Thrown(<<"Target not found", targetName>>)
    ELSE Checked(<<"wol.wake", targets[targetName].mac, targets[targetName].ip>>)

WakeCheck(targetName) ==
    IF ~enableWakeOnLan
    THEN Thrown(<<"Wake-on-LAN is disabled in configuration">>)
    ELSE IF targetName \notin DOMAIN targets
    THEN Thrown(<<"Target not found", targetName>>)
    ELSE Checked(<<"wol.wake", targets[targetName].mac, targets[targetName].ip>>)

ShutdownCheck ==
    IF ~allowSystemControl
    THEN Thrown(<<"System control is disabled in configuration">>)
    ELSE IF platform = "win32" THEN Checked(<<"shutdown /s /t", 10>>)
    ELSE IF platform = "darwin" THEN Checked(<<"sudo shutdown -h +", 1>>)
    ELSE IF platform = "linux" THEN Checked(<<"sudo shutdown -h +", 1>>)
    ELSE Thrown(<<"Shutdown not supported on platform", platform>>)

RestartCheck ==
    IF ~allowSystemControl
    THEN Thrown(<<"System control is disabled in configuration">>)
    ELSE IF platform = "win32" THEN Checked(<<"shutdown /r /t", 10>>)
    ELSE IF platform = "darwin" THEN Checked(<<"sudo shutdown -r +", 1>>)
    ELSE IF platform = "linux" THEN Checked(<<"sudo reboot">>)
    ELSE Thrown(<<"Restart not supported on platform", platform>>)

PingCheck(targetName) ==
    IF targetName \notin DOMAIN targets
    THEN Thrown(<<"Target not found", targetName>>)
    ELSE IF platform = "win32" THEN Checked(<<"ping -n 1", targets[targetName].ip>>)
    ELSE Checked(<<"ping -c 1", targets[targetName].ip>>)

\* A range check that is off by one at its lower end.
ScheduleCheckRejectsMinimum(delayMinutes) ==
    IF ~allowSystemControl
    THEN Thrown(<<"System control is disabled in configuration">>)
    ELSE IF delayMinutes <= MinDelay \/ delayMinutes > MaxDelay
    THEN Thrown(<<"Delay must be between 1 and 1440 minutes">>)
    ELSE IF platform = "win32" THEN Checked(<<"shutdown /s /t", delayMinutes * 60>>)
    ELSE IF platform = "darwin" THEN Checked(<<"sudo shutdown -h +", delayMinutes>>)
    ELSE IF platform = "linux" THEN Checked(<<"sudo shutdown -h +", delayMinutes>>)
    ELSE Thrown(<<"Scheduled shutdown not supported on platform", platform>>)

ScheduleCheck(delayMinutes) ==
    IF ~allowSystemControl
    THEN Thrown(<<"System control is disabled in configuration">>)
    ELSE IF delayMinutes < MinDelay \/ delayMinutes > MaxDelay
    THEN Thrown(<<"Delay must be between 1 and 1440 minutes">>)
    ELSE IF platform = "win32" THEN Checked(<<"shutdown /s /t", delayMinutes * 60>>)
    ELSE IF platform = "darwin" THEN Checked(<<"sudo shutdown -h +", delayMinutes>>)
    ELSE IF platform = "linux" THEN Checked(<<"sudo shutdown -h +", delayMinutes>>)
    ELSE Thrown(<<"Scheduled shutdown not supported on platform", platform>>)

\* A cancel that takes every platform but windows for a unix.
CancelCheckDefaultsToUnix ==
    IF ~allowSystemControl
    THEN Thrown(<<"System control is disabled in configuration">>)
    ELSE IF platform = "win32" THEN Checked(<<"shutdown /a">>)
    ELSE Checked(<<"sudo shutdown -c">>)

CancelCheck ==
    IF ~allowSystemControl
    THEN Thrown(<<"System control is disabled in configuration">>)
    ELSE IF platform = "win32" THEN Checked(<<"shutdown /a">>)
    ELSE IF platform = "darwin" \/ platform = "linux" THEN Checked(<<"sudo shutdown -c">>)
    ELSE Thrown(<<"Cancel shutdown not supported on platform", platform>>)

----------------------------------------------------------------------------
(* The shape all six methods share. *)

\* The fallback text of each method's catch block.
Fallback(method) == IF method = "pingTarget" THEN <<"Host unreachable">> ELSE <<"Unknown error">>

\* A method that forgets to push its operation.
PushOperationSkipped(log, ref) == log

\* An unshift in the place of the push: the newest record first.
PushOperationFront(log, ref) == <<ref>> \o log

\* this.operations.push(operation)
PushOperation(log, ref) == Append(log, ref)

\* A success path that can run again: the frame stays at its await.
SucceedStillAwaited(op, startTime, t) ==
    [op |-> [op EXCEPT !.status = "success", !.duration = <<t - startTime>>],
     pc |-> "await"]

\* A success path that forgets the duration.
SucceedNoDuration(op, startTime, t) ==
    [op |-> [op EXCEPT !.status = "success"], pc |-> "returned"]

\* The end of the try block: status and duration, then `return operation`.
Succeed(op, startTime, t) ==
    [op |-> [op EXCEPT !.status = "success", !.duration = <<t - startTime>>],
     pc |-> "returned"]

\* No catch block: the fault leaves the method, the operation stays pending.
CatchRethrow(op, e, fallback) == [op |-> op, pc |-> "thrown"]

\* A catch block that forgets the error text.
CatchNoMessage(op, e, fallback) ==
    [op |-> [op EXCEPT !.status = "failed"], pc |-> "returned"]

\* A catch block that returns the operation as it is.
CatchStaysPending(op, e, fallback) == [op |-> op, pc |-> "returned"]

\* The catch block: status and error, then `return operation`.
Catch(op, e, fallback) ==
    [op |-> [op EXCEPT !.status = "failed", !.error = <<ErrorText(e, fallback)>>],
     pc |-> "returned"]

\* A frame suspended at its await, and a frame of a call that is over. A frame
\* keeps the arguments of its call.
Awaiting(method, args, command, t) ==
    [method |-> method, args |-> args, pc |-> "await", startTime |-> t,
     command |-> command]

Ended(method, args, command, pc) ==
    [method |-> method, args |-> args, pc |-> pc, startTime |-> 0,
     command |-> command]

\* The body of `method` up to its first suspension or its return: the operation
\* is created and pushed, the checks run, and either the external action is
\* dispatched and awaited or the catch block ends the call.
Invoke(method, args, prefix, target, kind, check) ==
    /\ callBudget > 0
    /\ callBudget' = callBudget - 1
    /\ LET op == NewOperation(prefix, target, kind, now)
           ref == Len(ops) + 1
           caught == Catch(op, check.thrown, Fallback(method))
       IN /\ operations' = PushOperation(operations, ref)
          /\ IF check.ok
             THEN /\ ops' = Append(ops, op)
                  /\ frames' = Append(frames, Awaiting(method, args, check.command, now))
             ELSE /\ ops' = Append(ops, caught.op)
                  /\ frames' = Append(frames, Ended(method, args, <<>>, caught.pc))
    /\ UNCHANGED <<configVars, targets, lastQuery, envVars, monitorVars, authVars>>

\* A call of `method` made on the service itself.
Call(method, args, prefix, target, kind, check) ==
    /\ Invoke(method, args, prefix, target, kind, check)
    /\ UNCHANGED toolCalls

WakeOnLan ==
    \E targetName \in ArgNames :
        Call("wakeOnLan", <<targetName>>, "wake", targetName, "wake", WakeCheck(targetName))

ShutdownLocal == Call("shutdownLocal", <<>>, "shutdown", "localhost", "shutdown", ShutdownCheck)

RestartLocal == Call("restartLocal", <<>>, "restart", "localhost", "restart", RestartCheck)

PingTarget ==
    \E targetName \in ArgNames :
        Call("pingTarget", <<targetName>>, "ping", targetName, "status", PingCheck(targetName))

ScheduleShutdown ==
    \E delayMinutes \in DelayArgs :
        Call("scheduleShutdown", <<delayMinutes>>, "scheduled-shutdown", "localhost",
             "shutdown", ScheduleCheck(delayMinutes))

CancelScheduledShutdown ==
    Call("cancelScheduledShutdown", <<>>, "cancel-shutdown", "localhost", "shutdown",
         CancelCheck)

----------------------------------------------------------------------------
(* The shutdown_system tool handler (tools/systemTools.ts). *)

\* The `delay` a client passes: <<>> when it passes none, <<d>> for the number d.
\* Nothing in the repository holds a call against the tool's input schema.
ToolDelayArgs == {<<>>, <<0 - 1>>, <<0>>, <<1>>, <<1440>>, <<1441>>}

\* `if (args?.delay)`: undefined and 0 are falsy.
Truthy(delay) == delay # <<>> /\ delay[1] # 0

\* handler(args) up to its first suspension or its return. A call that returns
\* before it reaches the service has ref 0; another has the reference of the
\* operation its service call created.
ShutdownTool ==
    /\ Len(toolCalls) < MaxToolCalls
    /\ \E delay \in ToolDelayArgs, cancel \in BOOLEAN :
         IF ~allowSystemControl
         THEN /\ toolCalls' = Append(toolCalls, [delay |-> delay, cancel |-> cancel,
                                                 ref |-> 0])
              /\ UNCHANGED <<configVars, targets, ops, operations, frames, callBudget,
                             lastQuery, envVars, monitorVars, authVars>>
         ELSE /\ toolCalls' = Append(toolCalls, [delay |-> delay, cancel |-> cancel,
                                                 ref |-> Len(ops) + 1])
              /\ IF cancel
                 THEN Invoke("cancelScheduledShutdown", <<>>, "cancel-shutdown",
                             "localhost", "shutdown", CancelCheck)
                 ELSE IF Truthy(delay)
                 THEN Invoke("scheduleShutdown", delay, "scheduled-shutdown",
                             "localhost", "shutdown", ScheduleCheck(delay[1]))
                 ELSE Invoke("shutdownLocal", <<>>, "shutdown", "localhost",
                             "shutdown", ShutdownCheck)

\* The text the handler returns once its service call has returned.
ToolReport(call) ==
    IF call.ref = 0
    THEN <<"System control is disabled in configuration">>
    ELSE IF ops[call.ref].status = "success"
    THEN <<"success">>
    ELSE <<"failed", ops[call.ref].error>>

----------------------------------------------------------------------------
(* The external actions settle. *)

\* The awaited promise resolves (the packet was sent, the command exited 0).
ExternalResolves ==
    /\ \E r \in 1..Len(frames) :
         /\ frames[r].pc = "await"
         /\ LET done == Succeed(ops[r], frames[r].startTime, now)
            IN /\ ops' = [ops EXCEPT ![r] = done.op]
               /\ frames' = [frames EXCEPT ![r].pc = done.pc]
    /\ UNCHANGED <<configVars, targets, operations, callBudget, handlerVars,
                   envVars, monitorVars, authVars>>

\* The awaited promise rejects with an Error (a send error, a non-zero exit, a
\* timeout).
ExternalRejects ==
    /\ \E r \in 1..Len(frames) :
         /\ frames[r].pc = "await"
         /\ LET caught == Catch(ops[r], Error(<<"Command failed", frames[r].command>>),
                                Fallback(frames[r].method))
            IN /\ ops' = [ops EXCEPT ![r] = caught.op]
               /\ frames' = [frames EXCEPT ![r].pc = caught.pc]
    /\ UNCHANGED <<configVars, targets, operations, callBudget, handlerVars,
                   envVars, monitorVars, authVars>>

\* No query was made yet.
NoQuery == [called |-> FALSE, filter |-> <<>>, limit |-> 0, log |-> <<>>,
            refs |-> <<>>, seen |-> <<>>]

\* getOperations(limit)
GetOperations(limit) ==
    LET refs == Slice(operations, 0 - limit)
    IN [i \in 1..Len(refs) |-> ops[refs[i]]]

\* this.operations.filter(op => op.target === targetName)
ByTarget(targetName) == SelectSeq(operations, LAMBDA r : ops[r].target = targetName)

\* getOperationsByTarget(targetName, limit)
GetOperationsByTarget(targetName, limit) ==
    LET refs == Slice(ByTarget(targetName), 0 - limit)
    IN [i \in 1..Len(refs) |-> ops[refs[i]]]

\* The limits a caller passes.
LimitArgs == {0, 1, 2, 3}

\* A caller calls getOperations(limit) and keeps the array it returns: the
\* references in it, and what the caller read in the records at that time.
QueryOperations ==
    /\ \E limit \in LimitArgs :
         lastQuery' = [called |-> TRUE, filter |-> <<>>, limit |-> limit,
                       log |-> operations,
                       refs |-> Slice(operations, 0 - limit),
                       seen |-> GetOperations(limit)]
    /\ UNCHANGED <<configVars, targets, ops, operations, frames, callBudget, toolCalls,
                   envVars, monitorVars, authVars>>

\* A caller calls getOperationsByTarget(targetName, limit) and keeps the array.
QueryOperationsByTarget ==
    /\ \E targetName \in ArgNames, limit \in LimitArgs :
         lastQuery' = [called |-> TRUE, filter |-> <<targetName>>, limit |-> limit,
                       log |-> operations,
                       refs |-> Slice(ByTarget(targetName), 0 - limit),
                       seen |-> GetOperationsByTarget(targetName, limit)]
    /\ UNCHANGED <<configVars, targets, ops, operations, frames, callBudget, toolCalls,
                   envVars, monitorVars, authVars>>

\* clearOperations()
ClearOperations ==
    /\ operations' = <<>>
    /\ UNCHANGED <<configVars, targets, ops, frames, callBudget, handlerVars,
                   envVars, monitorVars, authVars>>

\* addTarget(target)
AddTarget ==
    /\ \E name \in KnownNames :
         targets' = [n \in DOMAIN targets \cup {name} |->
                        IF n = name THEN Target(name) ELSE targets[n]]
    /\ UNCHANGED <<configVars, ops, operations, frames, callBudget, handlerVars,
                   envVars, monitorVars, authVars>>

\* removeTarget(name)
RemoveTarget ==
    /\ \E name \in ArgNames :
         targets' = [n \in DOMAIN targets \ {name} |-> targets[n]]
    /\ UNCHANGED <<configVars, ops, operations, frames, callBudget, handlerVars,
                   envVars, monitorVars, authVars>>

\* The state after construction: loadDefaultTargets() adds the target of the
\* environment variables when they are set.
InitRemote(budget) ==
    /\ enableWakeOnLan \in BOOLEAN
    /\ allowSystemControl \in BOOLEAN
    /\ platform \in Platforms
    /\ targets \in {NoTargets, [n \in KnownNames |-> Target(n)]}
    /\ ops = <<>>
    /\ operations = <<>>
    /\ frames = <<>>
    /\ callBudget = budget
    /\ lastQuery = NoQuery
    /\ toolCalls = <<>>

\* A service with both flags on, on linux, with the default target in its table.
ReadyRemote(budget) ==
    /\ enableWakeOnLan = TRUE
    /\ allowSystemControl = TRUE
    /\ platform = "linux"
    /\ targets = [n \in KnownNames |-> Target(n)]
    /\ ops = <<>>
    /\ operations = <<>>
    /\ frames = <<>>
    /\ callBudget = budget
    /\ lastQuery = NoQuery
    /\ toolCalls = <<>>

\* A run in which the other service is left alone.
IdleRemote ==
    /\ enableWakeOnLan = TRUE
    /\ allowSystemControl = TRUE
    /\ platform = "linux"
    /\ targets = NoTargets
    /\ ops = <<>>
    /\ operations = <<>>
    /\ frames = <<>>
    /\ callBudget = 0
    /\ lastQuery = NoQuery
    /\ toolCalls = <<>>

----------------------------------------------------------------------------
(* AuthService (services/auth.ts): the user table. *)

\* The usernames and roles a caller passes.
AuthNames == {"admin", "bob"}

Roles == {"admin", "user"}

\* 'admin-1', and `user-${Date.now()}`: the prefix and the number.
AdminId == <<"admin", 1>>

UserId(t) == <<"user", t>>

\* The User object, less its password hash.
User(id, username, role, t) ==
    [id |-> id, username |-> username, role |-> role, createdAt |-> t]

AdminUser(t) == User(AdminId, "admin", "admin", t)

NoUsers == [id \in {} |-> AdminUser(0)]

\* Array.from(this.users.values()).find(u => u.username === username)
Existing(username) == {id \in DOMAIN users : users[id].username = username}

\* this.users.set(id, user): a Map keeps one value for a key, the last one set.
SetUser(table, id, user) ==
    [k \in DOMAIN table \cup {id} |-> IF k = id THEN user ELSE table[k]]

\* createUser(username, password, role) up to its return of null or its await
\* of bcrypt.hash.
CreateUser ==
    /\ Len(authFrames) < MaxAuthCalls + 1
    /\ \E username \in AuthNames, role \in Roles :
         authFrames' = Append(authFrames,
            IF Existing(username) # {}
            THEN [method |-> "createUser", pc |-> "returned", username |-> username,
                  role |-> role, userId |-> <<>>, result |-> <<>>]
            ELSE [method |-> "createUser", pc |-> "hash", username |-> username,
                  role |-> role, userId |-> <<UserId(now)>>, result |-> <<>>])
    /\ UNCHANGED <<users, envVars, monitorVars, remoteVars>>

\* bcrypt.hash resolves: the user is built and set in the table; `result` is the
\* user the call stored, which createUser also returns.
AuthHashResolves ==
    /\ \E i \in 1..Len(authFrames) :
         /\ authFrames[i].pc = "hash"
         /\ LET f == authFrames[i]
                id == f.userId[1]
                user == User(id, f.username, f.role, now)
            IN /\ users' = SetUser(users, id, user)
               /\ authFrames' = [authFrames EXCEPT ![i].pc = "returned",
                                                   ![i].result = <<user>>]
    /\ UNCHANGED <<envVars, monitorVars, remoteVars>>

\* bcrypt.hash rejects: the fault leaves the method, the table is as it was.
AuthHashRejects ==
    /\ \E i \in 1..Len(authFrames) :
         /\ authFrames[i].pc = "hash"
         /\ authFrames' = [authFrames EXCEPT ![i].pc = "thrown"]
    /\ UNCHANGED <<users, envVars, monitorVars, remoteVars>>

\* The state after construction: createDefaultAdmin() is suspended at its await
\* of bcrypt.hash, the table is empty.
InitAuth ==
    /\ users = NoUsers
    /\ authFrames = <<[method |-> "createDefaultAdmin", pc |-> "hash",
                       username |-> "admin", role |-> "admin",
                       userId |-> <<AdminId>>, result |-> <<>>]>>

\* A run in which the user table is left alone: the default admin is in it.
IdleAuth ==
    /\ users = SetUser(NoUsers, AdminId, AdminUser(0))
    /\ authFrames = <<>>

----------------------------------------------------------------------------
(* Specifications. *)

\* The evaluation of one snapshot, for every combination of values around the
\* thresholds.
InitEval ==
    /\ now = 0
    /\ host \in GridHosts
    /\ InitMonitor(TRUE, MaxEvalTicks)
    /\ IdleRemote
    /\ IdleAuth

NextEval == TimerFire \/ ProbeResolve \/ ProbeReject \/ TempResolve \/ TempReject

SpecEval == InitEval /\ [][NextEval]_vars

\* A long run of ticks, one at a time, on a host that stays as it is: the alert
\* window.
InitRetention ==
    /\ now = 0
    /\ host \in ProfileHosts
    /\ InitMonitor(TRUE, RetentionTicks)
    /\ IdleRemote
    /\ IdleAuth

NextRetention == TimerFireIdle \/ ProbeResolve \/ TempResolve \/ ClearAlerts

SpecRetention == InitRetention /\ [][NextRetention]_vars

\* The executor's calls under every configuration, with the monitor switched off
\* and all calls made within one reading of the clock.
InitRemoteOnly ==
    /\ now = 0
    /\ host = Calm
    /\ InitMonitor(FALSE, 0)
    /\ InitRemote(MaxCalls)
    /\ IdleAuth

NextRemote ==
    \/ WakeOnLan
    \/ ShutdownLocal
    \/ RestartLocal
    \/ PingTarget
    \/ ScheduleShutdown
    \/ CancelScheduledShutdown
    \/ ExternalResolves
    \/ ExternalRejects
    \/ ClearOperations
    \/ AddTarget
    \/ RemoveTarget

SpecRemote == InitRemoteOnly /\ [][NextRemote]_vars

\* The monitor alone: overlapping ticks, probe failures, a host that changes.
InitMonitorOnly ==
    /\ now = 0
    /\ host \in ProfileHosts
    /\ \E enabled \in BOOLEAN : InitMonitor(enabled, MaxTicks)
    /\ IdleRemote
    /\ IdleAuth

NextMonitor ==
    \/ TimerFire
    \/ ProbeResolve
    \/ ProbeReject
    \/ TempResolve
    \/ TempReject
    \/ ClearAlerts
    \/ StopMonitoring
    \/ ClockAdvance
    \/ HostChange

SpecMonitor == InitMonitorOnly /\ [][NextMonitor]_vars

\* The wake-on-LAN calls of the executor next to a running monitor on a host that
\* raises alerts.
InitWake ==
    /\ now = 0
    /\ host = Overloaded
    /\ InitMonitor(TRUE, MaxSystemTicks)
    /\ InitRemote(MaxSystemCalls)
    /\ IdleAuth

NextWake ==
    \/ TimerFireIdle
    \/ ProbeResolve
    \/ TempResolve
    \/ WakeOnLan
    \/ ExternalResolves
    \/ ExternalRejects
    \/ AddTarget
    \/ RemoveTarget

SpecWake == InitWake /\ [][NextWake]_vars

\* getDetailedMetrics() called by the tool handlers, next to the interval
\* callback, with the monitor running, never started, or stopped, on a host that
\* stays as it is.
InitSnapshot ==
    /\ now = 0
    /\ host \in ProfileHosts
    /\ \E enabled \in BOOLEAN : InitMonitor(enabled, MaxEvalTicks)
    /\ IdleRemote
    /\ IdleAuth

NextSnapshot ==
    \/ GetDetailedMetrics
    \/ SnapshotProbeResolve
    \/ SnapshotProbeReject
    \/ SnapshotTempResolve
    \/ SnapshotTempReject
    \/ TimerFireIdle
    \/ ProbeResolve
    \/ ProbeReject
    \/ TempResolve
    \/ StopMonitoring

SpecSnapshot == InitSnapshot /\ [][NextSnapshot]_vars

\* The monitor started and stopped again and again by its owner.
InitLifecycle ==
    /\ now = 0
    /\ host \in ProfileHosts
    /\ \E enabled \in BOOLEAN : InitMonitor(enabled, MaxTicks)
    /\ IdleRemote
    /\ IdleAuth

NextLifecycle ==
    \/ StartMonitoring
    \/ StopMonitoring
    \/ TimerFire
    \/ ProbeResolve
    \/ ProbeReject
    \/ TempResolve
    \/ TempReject

SpecLifecycle == InitLifecycle /\ [][NextLifecycle]_vars

\* The log read by its callers while operations are requested and settle.
InitQuery ==
    /\ now = 0
    /\ host = Calm
    /\ InitMonitor(FALSE, 0)
    /\ ReadyRemote(MaxCalls)
    /\ IdleAuth

NextQuery ==
    \/ WakeOnLan
    \/ PingTarget
    \/ ShutdownLocal
    \/ ExternalResolves
    \/ ExternalRejects
    \/ ClearOperations
    \/ QueryOperations
    \/ QueryOperationsByTarget

SpecQuery == InitQuery /\ [][NextQuery]_vars

\* Everything that runs next to the store of alerts: the ticks one at a time,
\* clearAlerts, the tool handlers' getDetailedMetrics calls and the executor.
InitFrame ==
    /\ now = 0
    /\ host = Overloaded
    /\ InitMonitor(TRUE, MaxSystemTicks)
    /\ ReadyRemote(MaxSystemCalls)
    /\ IdleAuth

NextFrame ==
    \/ TimerFireIdle
    \/ ProbeResolve
    \/ TempResolve
    \/ ClearAlerts
    \/ GetDetailedMetricsIdle
    \/ SnapshotProbeResolve
    \/ SnapshotTempResolve
    \/ WakeOnLan
    \/ ShutdownLocal
    \/ RestartLocal
    \/ PingTarget
    \/ ScheduleShutdown
    \/ CancelScheduledShutdown
    \/ ExternalResolves
    \/ ExternalRejects

SpecFrame == InitFrame /\ [][NextFrame]_vars

\* The executor's calls when every external action that was dispatched settles
\* in the end: the packet is sent or the send fails, the command exits or times
\* out.
InitLive ==
    /\ now = 0
    /\ host = Calm
    /\ InitMonitor(FALSE, 0)
    /\ ReadyRemote(MaxLiveCalls)
    /\ IdleAuth

NextLive ==
    \/ WakeOnLan
    \/ ShutdownLocal
    \/ RestartLocal
    \/ PingTarget
    \/ ScheduleShutdown
    \/ CancelScheduledShutdown
    \/ ExternalResolves
    \/ ExternalRejects
    \/ ClearOperations

SpecLive ==
    /\ InitLive
    /\ [][NextLive]_vars
    /\ WF_vars(ExternalResolves \/ ExternalRejects)

\* The shutdown_system tool called by a client, under every configuration.
InitTool ==
    /\ now = 0
    /\ host = Calm
    /\ InitMonitor(FALSE, 0)
    /\ InitRemote(MaxToolCalls)
    /\ IdleAuth

NextTool == ShutdownTool \/ ExternalResolves \/ ExternalRejects

SpecTool == InitTool /\ [][NextTool]_vars

\* The user table: createUser calls next to each other and to the creation of
\* the default admin.
InitAuthOnly ==
    /\ now = 0
    /\ host = Calm
    /\ InitMonitor(FALSE, 0)
    /\ ReadyRemote(0)
    /\ InitAuth

NextAuth == CreateUser \/ AuthHashResolves \/ AuthHashRejects \/ ClockAdvance

SpecAuth == InitAuthOnly /\ [][NextAuth]_vars

\* Both services in one process.
Init ==
    /\ now = 0
    /\ host = Busy
    /\ \E enabled \in BOOLEAN : InitMonitor(enabled, MaxSystemTicks)
    /\ InitRemote(MaxSystemCalls)
    /\ IdleAuth

Next == NextMonitor \/ NextRemote

Spec == Init /\ [][Next]_vars

----------------------------------------------------------------------------
(* Properties of checkAlerts, checked under SpecEval. *)

HasAlert(result, prefix, type) ==
    \E i \in 1..Len(result) : result[i].id[1] = prefix /\ result[i].type = type

HasKind(result, prefix) == \E i \in 1..Len(result) : result[i].id[1] = prefix

\* C1: a value at or above the critical threshold of its kind (95, 95, 90, 80)
\* yields an alert of that kind with severity critical, the threshold itself
\* included.
C1_CriticalAtOrAboveThreshold ==
    lastEval.called =>
        LET m == lastEval.metrics
            r == lastEval.result
        IN /\ m.cpuUsage >= CpuCritical => HasAlert(r, "cpu", "critical")
           /\ m.memoryPercentage >= MemoryCritical => HasAlert(r, "memory", "critical")
           /\ m.diskPercentage >= DiskCritical => HasAlert(r, "disk", "critical")
           /\ m.cpuTemperature >= TempCritical => HasAlert(r, "temp", "critical")

\* C2: a value from the warning threshold of its kind (90, 85, 80, 70) up to, but
\* not including, the critical threshold yields an alert of that kind with
\* severity warning, the warning threshold itself included.
C2_WarningFromThreshold ==
    lastEval.called =>
        LET m == lastEval.metrics
            r == lastEval.result
        IN /\ (m.cpuUsage >= CpuThreshold /\ m.cpuUsage < CpuCritical)
                => HasAlert(r, "cpu", "warning")
           /\ (m.memoryPercentage >= MemoryThreshold /\ m.memoryPercentage < MemoryCritical)
                => HasAlert(r, "memory", "warning")
           /\ (m.diskPercentage >= DiskThreshold /\ m.diskPercentage < DiskCritical)
                => HasAlert(r, "disk", "warning")
           /\ (m.cpuTemperature >= TempThreshold /\ m.cpuTemperature < TempCritical)
                => HasAlert(r, "temp", "warning")

AllBelowWarning(m) ==
    /\ m.cpuUsage < CpuThreshold
    /\ m.memoryPercentage < MemoryThreshold
    /\ m.diskPercentage < DiskThreshold
    /\ m.cpuTemperature < TempThreshold

\* C3: a value below the warning threshold of its kind yields no alert of that
\* kind, and a snapshot with all four values below yields the empty sequence.
C3_NoAlertBelowWarning ==
    lastEval.called =>
        LET m == lastEval.metrics
            r == lastEval.result
        IN /\ m.cpuUsage < CpuThreshold => ~HasKind(r, "cpu")
           /\ m.memoryPercentage < MemoryThreshold => ~HasKind(r, "memory")
           /\ m.diskPercentage < DiskThreshold => ~HasKind(r, "disk")
           /\ m.cpuTemperature < TempThreshold => ~HasKind(r, "temp")
           /\ AllBelowWarning(m) => r = <<>>

\* A snapshot with every value one below its warning threshold was evaluated: the
\* result is empty.
C3_Witness ==
    /\ lastEval.called
    /\ lastEval.metrics.cpuUsage = CpuThreshold - 1
    /\ lastEval.metrics.memoryPercentage = MemoryThreshold - 1
    /\ lastEval.metrics.diskPercentage = DiskThreshold - 1
    /\ lastEval.metrics.cpuTemperature = TempThreshold - 1
    /\ lastEval.result = <<>>

----------------------------------------------------------------------------
(* Properties of the alert log, checked under SpecRetention. *)

\* C4: the store of alerts holds at most 50 events in every reachable state.
C4_StoreHoldsAtMostWindow == Len(alerts) <= AlertWindow

LastOf(s, n) == SubSeq(s, Len(s) - n + 1, Len(s))

\* C5: getAlerts() returns at most 50 events, and they are the most recently
\* pushed min(50, n) events since the last clearAlerts, in push order.
C5_GetAlertsIsRecentWindow ==
    /\ Len(GetAlerts) <= AlertWindow
    /\ GetAlerts = LastOf(appended, Min(AlertWindow, Len(appended)))

\* More than 50 alerts were pushed since the last clear, and getAlerts() leaves
\* the oldest out.
C5_Witness ==
    /\ Len(appended) > AlertWindow
    /\ Len(GetAlerts) = AlertWindow
    /\ GetAlerts[1] # appended[1]

----------------------------------------------------------------------------
(* Properties of the executor, checked under SpecRemote. *)

Refs == 1..Len(ops)

Settled(op) == op.status \in {"success", "failed"}

\* C6: a call that returns, returns an operation that is success or failed,
\* never pending, and no call ends by raising a fault to its caller.
C6_ReturnsSettledNeverRaises ==
    \A r \in Refs :
        /\ frames[r].pc # "thrown"
        /\ frames[r].pc = "returned" => Settled(ops[r])

\* One call returned failed from its checks, another returned after its external
\* action.
C6_Witness ==
    \E r1, r2 \in Refs :
        /\ frames[r1].pc = "returned" /\ frames[r1].command = <<>>
        /\ ops[r1].status = "failed"
        /\ frames[r2].pc = "returned" /\ frames[r2].command # <<>>
        /\ ops[r2].status = "success"

\* C7: the status of an operation changes only from pending to success or to
\* failed, and a settled operation never changes again, whatever else runs.
C7_SettledIsFinal ==
    [][\A r \in Refs :
          /\ Settled(ops[r]) => ops'[r] = ops[r]
          /\ ops'[r].status # ops[r].status
               => ops[r].status = "pending" /\ Settled(ops'[r])]_vars

\* Two operations settled, one success and one failed by its external action,
\* and the log was cleared after.
C7_Witness ==
    /\ operations = <<>>
    /\ \E r1, r2 \in Refs :
        /\ ops[r1].status = "success"
        /\ ops[r2].status = "failed" /\ frames[r2].command # <<>>

\* C8: every call pushes exactly one record, its own, whether its checks pass or
\* not: the record of a call that is awaiting its external action is pending,
\* that of a call whose checks failed is failed and stays in the log.
C8_PushedPendingAtCall ==
    /\ [](\A r \in Refs : frames[r].pc = "await" => ops[r].status = "pending")
    /\ [][callBudget' # callBudget =>
            LET r == Len(ops) + 1
            IN /\ Len(ops') = r
               /\ operations' = Append(operations, r)
               /\ frames'[r].pc = "await" => ops'[r].status = "pending"
               /\ frames'[r].pc # "await" => ops'[r].status = "failed"]_vars

\* The log holds the pending record of a call that is awaited and the failed
\* record of a call whose checks failed.
C8_Witness ==
    \E i, j \in 1..Len(operations) :
        /\ frames[operations[i]].pc = "await"
        /\ ops[operations[i]].status = "pending"
        /\ frames[operations[j]].pc = "returned"
        /\ frames[operations[j]].command = <<>>
        /\ ops[operations[j]].status = "failed"

\* C9: an operation has an error exactly when it is failed.
C9_ErrorIffFailed ==
    \A r \in Refs : (ops[r].error # <<>>) <=> (ops[r].status = "failed")

\* One operation failed its checks, one failed in its external action, both with
\* an error.
C9_Witness ==
    \E r1, r2 \in Refs :
        /\ ops[r1].status = "failed" /\ frames[r1].command = <<>> /\ ops[r1].error # <<>>
        /\ ops[r2].status = "failed" /\ frames[r2].command # <<>> /\ ops[r2].error # <<>>

\* C10, as claimed: an operation has a duration exactly when it is success or
\* failed.
C10_DurationIffSettled ==
    \A r \in Refs : (ops[r].duration # <<>>) <=> Settled(ops[r])

\* C10, amended: an operation has a duration exactly when it is success; a
\* pending operation and a failed one (by its checks or by its external action)
\* have none.
C10_DurationIffSuccess ==
    \A r \in Refs : (ops[r].duration # <<>>) <=> (ops[r].status = "success")

\* One operation succeeded and has a duration, one failed in its external action
\* and has none.
C10_Witness ==
    \E r1, r2 \in Refs :
        /\ ops[r1].status = "success" /\ ops[r1].duration # <<>>
        /\ ops[r2].status = "failed" /\ frames[r2].command # <<>> /\ ops[r2].duration = <<>>

\* C11, as claimed: a ping of a known target returns success with a duration when
\* the ping command exits zero and failed with the error "Host unreachable" when
\* it exits non-zero or times out; a ping of an unknown target returns failed and
\* no command was run.
C11_PingFailsWithHostUnreachable ==
    \A r \in Refs :
        (frames[r].method = "pingTarget" /\ frames[r].pc = "returned") =>
            IF frames[r].command = <<>>
            THEN ops[r].status = "failed"
            ELSE \/ ops[r].status = "success" /\ ops[r].duration # <<>>
                 \/ ops[r].status = "failed" /\ ops[r].error = << <<"Host unreachable">> >>

WakeCallStep == callBudget' # callBudget /\ frames'[Len(ops) + 1].method = "wakeOnLan"

WakeRefused(r) ==
    /\ frames'[r].pc = "returned"
    /\ frames'[r].command = <<>>
    /\ ops'[r].status = "failed"

NotFoundError(targetName) == << <<"Target not found", targetName>> >>

\* C13, as claimed: wakeOnLan returns failed and sends no packet when the flag
\* is off or the name is not in the target table at the call; for a name that is
\* not in the table the error is the target-not-found error; no step of a
\* wakeOnLan call changes the alerts.
C13_UnknownTargetAlwaysNotFound ==
    [][/\ WakeCallStep =>
            LET r == Len(ops) + 1
                targetName == frames'[r].args[1]
            IN /\ (~enableWakeOnLan \/ targetName \notin DOMAIN targets) => WakeRefused(r)
               /\ targetName \notin DOMAIN targets
                    => ops'[r].error = NotFoundError(targetName)
       /\ \A r \in 1..Len(frames') :
            (frames'[r].method = "wakeOnLan" /\ (r > Len(frames) \/ frames'[r] # frames[r]))
                => alerts' = alerts]_vars

\* C13, amended: wakeOnLan returns failed and sends no packet when the flag is
\* off or the name is not in the target table at the call; the flag is checked
\* first, so the error is the disabled error whenever the flag is off, and the
\* target-not-found error for a name that is not in the table with the flag on;
\* no step of a wakeOnLan call changes the alerts.
C13_RefusedFlagFirst ==
    [][/\ WakeCallStep =>
            LET r == Len(ops) + 1
                targetName == frames'[r].args[1]
            IN /\ (~enableWakeOnLan \/ targetName \notin DOMAIN targets) => WakeRefused(r)
               /\ ~enableWakeOnLan
                    => ops'[r].error = << <<"Wake-on-LAN is disabled in configuration">> >>
               /\ (enableWakeOnLan /\ targetName \notin DOMAIN targets)
                    => ops'[r].error = NotFoundError(targetName)
       /\ \A r \in 1..Len(frames') :
            (frames'[r].method = "wakeOnLan" /\ (r > Len(frames) \/ frames'[r] # frames[r]))
                => alerts' = alerts]_vars

\* With alerts in the store and the flag on, a wakeOnLan of a name that is not in
\* the table returned failed with the target-not-found error and no packet.
C13_Witness ==
    /\ alerts # <<>>
    /\ enableWakeOnLan
    /\ \E r \in Refs :
        /\ frames[r].method = "wakeOnLan"
        /\ frames[r].args[1] \notin DOMAIN targets
        /\ frames[r].command = <<>>
        /\ ops[r].status = "failed"
        /\ ops[r].error = NotFoundError(frames[r].args[1])

MappedPlatforms == {"win32", "darwin", "linux"}

RangeError == << <<"Delay must be between 1 and 1440 minutes">> >>

ScaledCommand(delayMinutes) ==
    IF platform = "win32"
    THEN <<"shutdown /s /t", delayMinutes * 60>>
    ELSE <<"sudo shutdown -h +", delayMinutes>>

\* C12: with the system-control flag on and a platform of windows, darwin or
\* linux, scheduleShutdown(d) with d < 1 or d > 1440 returns failed with the range
\* error and hands no command over; with d in 1..1440 it hands over the command
\* with the scaled delay (d * 60 seconds on windows, +d minutes on darwin and
\* linux), fails only if that command fails, and returns success when it succeeds.
C12_ScheduleValidatesAndScales ==
    (allowSystemControl /\ platform \in MappedPlatforms) =>
        \A r \in Refs :
            frames[r].method = "scheduleShutdown" =>
                LET f == frames[r]
                    d == f.args[1]
                IN IF d < 1 \/ d > 1440
                   THEN /\ f.pc = "returned"
                        /\ f.command = <<>>
                        /\ ops[r].status = "failed"
                        /\ ops[r].error = RangeError
                   ELSE /\ f.command = ScaledCommand(d)
                        /\ f.pc = "returned" => Settled(ops[r])
                        /\ ops[r].status = "failed"
                             => ops[r].error = << <<"Command failed", f.command>> >>

\* On windows, one scheduleShutdown with a delay out of range failed with no
\* command, and one with the delay 1440 returned success after the command with
\* 86400 seconds.
C12_Witness ==
    /\ allowSystemControl
    /\ platform = "win32"
    /\ \E r1, r2 \in Refs :
        /\ frames[r1].method = "scheduleShutdown" /\ frames[r1].args[1] > MaxDelay
        /\ ops[r1].error = RangeError /\ frames[r1].command = <<>>
        /\ frames[r2].method = "scheduleShutdown" /\ frames[r2].args[1] = MaxDelay
        /\ ops[r2].status = "success"
        /\ frames[r2].command = <<"shutdown /s /t", MaxDelay * 60>>

SystemMethods ==
    {"shutdownLocal", "restartLocal", "scheduleShutdown", "cancelScheduledShutdown"}

DisabledError == << <<"System control is disabled in configuration">> >>

UnsupportedTexts ==
    {"Shutdown not supported on platform", "Restart not supported on platform",
     "Scheduled shutdown not supported on platform",
     "Cancel shutdown not supported on platform"}

\* C14: with the system-control flag off, or on a platform other than windows,
\* darwin and linux, every call of shutdown, restart, scheduleShutdown and
\* cancelScheduledShutdown has returned failed with an error that names the cause
\* (the flag, the platform, or the delay's range), and no command was handed over.
C14_NoCommandWhenDisabledOrUnmapped ==
    (~allowSystemControl \/ platform \notin MappedPlatforms) =>
        \A r \in Refs :
            frames[r].method \in SystemMethods =>
                /\ frames[r].pc = "returned"
                /\ frames[r].command = <<>>
                /\ ops[r].status = "failed"
                /\ IF ~allowSystemControl
                   THEN ops[r].error = DisabledError
                   ELSE \/ ops[r].error = RangeError
                        \/ /\ ops[r].error # <<>>
                           /\ ops[r].error[1][1] \in UnsupportedTexts
                           /\ ops[r].error[1][2] = platform

\* On a platform that is not mapped, with the flag on, a cancel and a shutdown
\* were called and both returned failed.
C14_Witness ==
    /\ allowSystemControl
    /\ platform \notin MappedPlatforms
    /\ \E r1, r2 \in Refs :
        /\ frames[r1].method = "cancelScheduledShutdown" /\ ops[r1].status = "failed"
        /\ frames[r2].method = "shutdownLocal" /\ ops[r2].status = "failed"

----------------------------------------------------------------------------
(* Properties of getDetailedMetrics, checked under SpecSnapshot. *)

Calls == 1..Len(snapshots)

\* C15: a getDetailedMetrics() call never ends by raising a fault, whether the
\* monitor is running, was never started or was stopped; a call whose probe
\* failed has returned, and what it returned is the fallback metrics.
C15_SnapshotNeverRaises ==
    \A i \in Calls :
        /\ snapshots[i].pc \in {"probe", "temp", "returned"}
        /\ snapshots[i].probeFailed =>
             /\ snapshots[i].pc = "returned"
             /\ snapshots[i].metrics = FallbackMetrics(host)

\* After the monitor was stopped, one call returned the fallback metrics after a
\* probe failure and another returned probed metrics.
C15_Witness ==
    /\ enableAlerts
    /\ ~isMonitoring
    /\ \E i, j \in Calls :
        /\ snapshots[i].probeFailed /\ snapshots[i].pc = "returned"
        /\ ~snapshots[j].probeFailed /\ snapshots[j].pc = "returned"

\* No host of ProfileHosts reads a cpu usage of 0 and a disk percentage of 0:
\* metrics with both were the fallback metrics.
EvaluatedFallback ==
    /\ lastEval.called
    /\ lastEval.metrics.cpuUsage = 0
    /\ lastEval.metrics.diskPercentage = 0

\* C16, as claimed: the metrics returned after a probe failure have a cpu usage,
\* a cpu temperature, a memory percentage and a disk percentage of 0, and a
\* checkAlerts call on fallback metrics returns no alert.
C16_FallbackAllZeroNoAlert ==
    /\ \A i \in Calls :
         snapshots[i].probeFailed =>
             /\ snapshots[i].metrics.cpuUsage = 0
             /\ snapshots[i].metrics.cpuTemperature = 0
             /\ snapshots[i].metrics.memoryPercentage = 0
             /\ snapshots[i].metrics.diskPercentage = 0
    /\ EvaluatedFallback => lastEval.result = <<>>

----------------------------------------------------------------------------
(* Properties of the timer, checked under SpecMonitor and SpecLifecycle. *)

\* C17: no step of a tick (its firing, the settling of its probe or of its
\* temperature read, with or without a failure) changes the timer or the
\* monitoring flag, and a monitor that is monitoring holds its timer, which can
\* fire whenever the run has a firing left.
C17_TickLeavesTimerRunning ==
    /\ [](isMonitoring =>
            /\ monitoringInterval \in timers
            /\ (tickBudget > 0 /\ Len(ticks) < MaxInFlight) => ENABLED TimerFire)
    /\ [][ticks' # ticks =>
            /\ timers' = timers
            /\ monitoringInterval' = monitoringInterval
            /\ isMonitoring' = isMonitoring]_vars

\* The probe of the first tick failed (the fallback metrics were evaluated at
\* the clock reading of the first firing), and the timer fired again after.
C17_Witness ==
    /\ isMonitoring
    /\ EvaluatedFallback
    /\ lastEval.result # <<>>
    /\ lastEval.result[1].timestamp = 1
    /\ Len(ticks) = 1
    /\ now > 1

\* C18: whatever the sequence of start and stop calls, the event loop holds at
\* most one interval, it holds one exactly when the monitor is monitoring, and it
\* is the one stopMonitoring would clear.
C18_AtMostOneTimer ==
    /\ Cardinality(timers) <= 1
    /\ isMonitoring <=> timers # {}
    /\ isMonitoring => timers = {monitoringInterval}

\* A monitor constructed with alerts disabled was started, and its one interval
\* fired.
C18_Witness ==
    /\ ~enableAlerts
    /\ isMonitoring
    /\ Cardinality(timers) = 1
    /\ ticks # <<>>

Stopped == ~isMonitoring /\ monitoringInterval = 0 /\ timers = {}

\* C19: a monitor that is not monitoring holds no interval, so no tick can begin;
\* it stays so whatever runs next, a second stopMonitoring included, and no step
\* taken then adds a tick.
C19_StopCancelsTimer ==
    /\ [](~isMonitoring => (Stopped /\ ~ENABLED TimerFire))
    /\ [][~isMonitoring => (Stopped' /\ Len(ticks') <= Len(ticks))]_vars

\* A monitor that was running was stopped with a tick in flight and a firing
\* left in the run.
C19_Witness ==
    /\ enableAlerts
    /\ Stopped
    /\ ticks # <<>>
    /\ tickBudget > 0

\* C20, as claimed: once stopMonitoring has returned, no alert is pushed, also
\* when a tick's probe was in flight at the stop.
C20_NoPushAfterStop ==
    [][(enableAlerts /\ ~isMonitoring) => Len(appended') <= Len(appended)]_vars

----------------------------------------------------------------------------
(* Properties of clearAlerts, checked under SpecRetention. *)

\* C21: in the state a clearAlerts() leaves, the store is empty and getAlerts()
\* returns the empty sequence, whatever the store held before; a clearAlerts()
\* on an empty store leaves it empty.
C21_ClearThenGetIsEmpty ==
    [][ClearAlerts => (alerts' = <<>> /\ GetAlerts' = <<>>)]_vars

\* The store was cleared after the last tick of a run on a host that raises
\* alerts at every tick.
C21_Witness ==
    /\ alerts = <<>>
    /\ GetAlerts = <<>>
    /\ tickBudget = 0
    /\ ticks = <<>>
    /\ lastEval.called
    /\ lastEval.result # <<>>

----------------------------------------------------------------------------
(* Properties of checkAlerts as a step, checked under SpecMonitor. *)

\* The step in which a tick leaves its last await and runs checkAlerts.
EvaluationStep == Len(ticks') < Len(ticks)

MetricOf(m, prefix) ==
    IF prefix = "cpu" THEN m.cpuUsage
    ELSE IF prefix = "memory" THEN m.memoryPercentage
    ELSE IF prefix = "disk" THEN m.diskPercentage
    ELSE m.cpuTemperature

\* C22, as claimed: a checkAlerts call leaves the store of alerts as it was; a
\* separate step adds its result.
C22_EvaluateLeavesStore ==
    [][EvaluationStep => alerts' = alerts]_vars

\* C22, amended: a checkAlerts call has one side effect, the push of its own
\* result at the end of the store, in the same step (a tick has no separate
\* append step); the result is made of the metrics and the clock reading alone,
\* and the call changes nothing else of the monitor.
C22_EvaluatePushesOwnResult ==
    [][EvaluationStep =>
        /\ lastEval'.called
        /\ alerts' = alerts \o lastEval'.result
        /\ \A i \in 1..Len(lastEval'.result) :
             LET a == lastEval'.result[i]
             IN /\ a.value = MetricOf(lastEval'.metrics, a.id[1])
                /\ a.timestamp = now
        /\ UNCHANGED <<enableAlerts, isMonitoring, monitoringInterval, timers,
                       tickBudget, snapshots>>]_vars

\* A checkAlerts call pushed its result behind alerts of an earlier call.
C22_Witness ==
    /\ lastEval.called
    /\ lastEval.result # <<>>
    /\ Len(alerts) > Len(lastEval.result)
    /\ Slice(alerts, 0 - Len(lastEval.result)) = lastEval.result

----------------------------------------------------------------------------
(* Properties of the queries of the log, checked under SpecQuery. *)

\* The records of the log a query was made on that the query was to select from.
Queried ==
    IF lastQuery.filter = <<>>
    THEN lastQuery.log
    ELSE SelectSeq(lastQuery.log, LAMBDA r : ops[r].target = lastQuery.filter[1])

\* C23, as claimed: for every limit >= 0, getOperations(limit) returns the last
\* min(limit, n) of the n records of the log, in push order, and
\* getOperationsByTarget(name, limit) the last min(limit, k) of the k records of
\* that target, in push order, and no record of another target.
C23_QueryReturnsLastLimit ==
    lastQuery.called =>
        /\ lastQuery.refs = LastOf(Queried, Min(lastQuery.limit, Len(Queried)))
        /\ \A i \in 1..Len(lastQuery.refs) :
             lastQuery.filter # <<>> => ops[lastQuery.refs[i]].target = lastQuery.filter[1]

\* C24, as claimed: a record a query returned has the status, the error and the
\* duration the caller read in it at every later time.
C24_ReturnedRecordUnchanged ==
    lastQuery.called =>
        \A i \in 1..Len(lastQuery.refs) :
            LET op == ops[lastQuery.refs[i]]
            IN /\ op.status = lastQuery.seen[i].status
               /\ op.error = lastQuery.seen[i].error
               /\ op.duration = lastQuery.seen[i].duration

KindRank(prefix) ==
    IF prefix = "cpu" THEN 1
    ELSE IF prefix = "memory" THEN 2
    ELSE IF prefix = "disk" THEN 3
    ELSE 4

\* C25: also when ticks overlap, the alerts of one checkAlerts call are pushed
\* once, as one block at the end of the store, with nothing of another tick
\* between them: at most four, at most one of a kind, in the order cpu, memory,
\* disk, temperature.
C25_EvaluationPushedAsOneBlock ==
    [][EvaluationStep =>
        LET r == lastEval'.result
        IN /\ alerts' = alerts \o r
           /\ appended' = appended \o r
           /\ Len(r) <= 4
           /\ \A i, j \in 1..Len(r) :
                i < j => KindRank(r[i].id[1]) < KindRank(r[j].id[1])]_vars

\* Two ticks were in flight together: both ran checkAlerts at one clock reading
\* (no firing between them), and each pushed a block of more than one alert.
C25_Witness ==
    /\ ticks = <<>>
    /\ Len(lastEval.result) > 1
    /\ Len(appended) = 2 * Len(lastEval.result)
    /\ \A i \in 1..Len(lastEval.result) :
         /\ appended[i].timestamp = appended[Len(appended)].timestamp
         /\ appended[i + Len(lastEval.result)] = lastEval.result[i]

\* C27, as claimed: no two alerts in the store have the same id, also when two
\* ticks run checkAlerts at the same clock reading.
C27_AlertIdsUnique ==
    \A i, j \in 1..Len(alerts) : i # j => alerts[i].id # alerts[j].id

----------------------------------------------------------------------------
(* Progress of the executor, checked under SpecLive. *)

\* C28: when every dispatched external action settles in the end, every
\* operation that was created is success or failed in the end, and an operation
\* is pending exactly while its call is suspended at the await of its external
\* action.
C28_EveryOperationSettles ==
    /\ [](\A r \in Refs : ops[r].status = "pending" <=> frames[r].pc = "await")
    /\ \A r \in 1..MaxLiveCalls :
         (r \in Refs) ~> (r \in Refs /\ Settled(ops[r]))

\* One operation settled after its external action while another is still
\* pending at its await.
C28_Witness ==
    \E r1, r2 \in Refs :
        /\ Settled(ops[r1]) /\ frames[r1].command # <<>>
        /\ ops[r2].status = "pending" /\ frames[r2].pc = "await"

----------------------------------------------------------------------------
(* Properties of the shutdown_system tool, checked under SpecTool. *)

\* C29, as claimed: a shutdown_system call without cancel and with a delay of 0,
\* a negative delay or a delay above 1440 hands no command over, and where the
\* handler reaches the service the failure it reports is the range error.
C29_ToolRefusesDelayOutOfRange ==
    \A i \in 1..Len(toolCalls) :
        LET call == toolCalls[i]
        IN (/\ ~call.cancel
            /\ call.delay # <<>>
            /\ (call.delay[1] < MinDelay \/ call.delay[1] > MaxDelay)) =>
               \/ call.ref = 0
               \/ /\ frames[call.ref].command = <<>>
                  /\ (allowSystemControl /\ platform \in MappedPlatforms)
                       => ToolReport(call) = <<"failed", RangeError>>

----------------------------------------------------------------------------
(* The order of the log, checked under SpecRemote. *)

\* C30: the records of the log are in the order in which their calls were made
\* (an operation created later has a later reference), each once, also when the
\* calls settle in another order; a step that settles an operation leaves the
\* log as it is.
C30_LogOrderIsRequestOrder ==
    /\ [](\A i, j \in 1..Len(operations) : i < j => operations[i] < operations[j])
    /\ [][(\E r \in Refs : ops'[r] # ops[r]) => operations' = operations]_vars

\* Two calls are in the log in the order they were made; the later one has
\* settled after its external action, the earlier one is still pending.
C30_Witness ==
    /\ Len(operations) = 2
    /\ operations[1] < operations[2]
    /\ ops[operations[1]].status = "pending"
    /\ Settled(ops[operations[2]])
    /\ frames[operations[2]].command # <<>>

\* C31, as claimed: no two records of the log have the same id, also when two
\* operations of one kind are requested at the same clock reading.
C31_OperationIdsUnique ==
    \A i, j \in 1..Len(operations) :
        i # j => ops[operations[i]].id # ops[operations[j]].id

----------------------------------------------------------------------------
(* The monitor with alerts disabled, checked under SpecSnapshot. *)

\* C32: a monitor constructed with alerts disabled never holds an interval and
\* is never monitoring, no interval callback ever runs (none is in flight, no
\* firing of the run was used, checkAlerts was never called), and the store of
\* alerts is empty; a getDetailedMetrics() call still goes on to return metrics
\* and never raises.
C32_DisabledMonitorNeverTicks ==
    ~enableAlerts =>
        /\ ~isMonitoring
        /\ monitoringInterval = 0
        /\ timers = {}
        /\ ticks = <<>>
        /\ tickBudget = MaxEvalTicks
        /\ ~lastEval.called
        /\ alerts = <<>>
        /\ GetAlerts = <<>>
        /\ \A i \in Calls : snapshots[i].pc \in {"probe", "temp", "returned"}

\* With alerts disabled, one getDetailedMetrics() call returned probed metrics
\* and another the fallback metrics.
C32_Witness ==
    /\ ~enableAlerts
    /\ \E i, j \in Calls :
        /\ snapshots[i].pc = "returned" /\ ~snapshots[i].probeFailed
        /\ snapshots[i].metrics.cpuUsage = host.cpuUsage
        /\ snapshots[j].pc = "returned" /\ snapshots[j].probeFailed

----------------------------------------------------------------------------
(* Properties of the user table, checked under SpecAuth. *)

\* C33, as claimed: a createUser call made when a user of that name is in the
\* table returned null; no two users in the table have the same username; and
\* the user a call stored is in the table as that call returned it, never
\* replaced by the user of another call.
C33_UsernamesUnique ==
    /\ \A id1, id2 \in DOMAIN users :
         id1 # id2 => users[id1].username # users[id2].username
    /\ \A i \in 1..Len(authFrames) :
         (authFrames[i].pc = "returned" /\ authFrames[i].result # <<>>) =>
             users[authFrames[i].userId[1]] = authFrames[i].result[1]

====
